---- MODULE Spec2Model ----
(***************************************************************************)
(* Model of psage/modform/maass/inc_gamma.pyx: the incomplete Gamma        *)
(* function of integer and half-integer parameter, the exponential         *)
(* integral Ei, and the Pochhammer symbol, on MPFR values.                 *)
(*                                                                         *)
(* An mpfr_t is modelled by its precision and by the exact (unrounded)     *)
(* algebraic value the code builds in it.  Exact values are rationals      *)
(* <<num, den>>; the transcendental units are kept symbolic:               *)
(*     E = sqrt(pi)*erfc(sqrt(x))      S = exp(-x)*sqrt(x)                 *)
(* The two Ei series are not evaluated numerically: the outcome of the     *)
(* comparison mpfr_cmpabs(tmp, eps) < 0 in each iteration is an input,     *)
(* given as the index conv of the first term below eps (0: no such term).  *)
(***************************************************************************)
EXTENDS Integers, Sequences, FiniteSets, TLC

\* ---------------------------------------------------------------- bounds
MaxN    == 3    \* |n| of the Gamma parameter
MaxK    == 4    \* |k| of the Pochhammer symbol
MaxA    == 3    \* |a| of the Pochhammer symbol
MaxX    == 30   \* |x| for the integer-parameter and Ei entry points
XSpan   == 3    \* the large |x| are MaxX-XSpan..MaxX, around the threshold
MaxHX   == 3    \* x for the half-integer entry points (x > 0)
MaxPrec == 6    \* precisions MaxPrec-1..MaxPrec
MaxLive == 4    \* cap on the number of leaked scratch values tracked

\* cdef int nmax = 10000
nmax == 10000

\* ------------------------------------------------------ exact arithmetic
Abs(i) == IF i < 0 THEN -i ELSE i

RECURSIVE GCD(_, _)
GCD(a, b) == IF b = 0 THEN a ELSE GCD(b, a % b)

Norm(n, d) ==
    LET g == GCD(Abs(n), Abs(d))
        s == IF d < 0 THEN -1 ELSE 1
    IN  <<(s * n) \div g, (s * d) \div g>>

RInt(i)    == <<i, 1>>
RAdd(p, q) == Norm(p[1] * q[2] + q[1] * p[2], p[2] * q[2])
RNeg(p)    == <<-p[1], p[2]>>
RMul(p, q) == Norm(p[1] * q[1], p[2] * q[2])
RDiv(p, q) == Norm(p[1] * q[2], p[2] * q[1])

RECURSIVE RPow(_, _)
RPow(p, k) == IF k = 0 THEN RInt(1)
              ELSE IF k > 0 THEN RMul(p, RPow(p, k - 1))
              ELSE RDiv(RPow(p, k + 1), p)

RECURSIVE Pow2(_)
Pow2(k) == IF k = 0 THEN 1 ELSE 2 * Pow2(k - 1)

\* an integer v is an exact MPFR value of precision p
RECURSIVE OddPart(_)
OddPart(v) == IF v = 0 THEN 0 ELSE IF v % 2 = 0 THEN OddPart(v \div 2) ELSE v
Representable(v, p) == OddPart(Abs(v)) < Pow2(p)

\* ------------------------------------------------------- MPFR value slots
\* kind names the units of the exact value:
\*   "rational": c1          "exp(-x)": c1*exp(-x)      "E,S": c1*E + c2*S
\*   "ei_asymp": exp(x)/x times the sum of 1 + terms series terms
\*   "Ei_ml":    Euler + the sum of terms series terms
\*   "ei_taylor": the "Ei_ml" value + ln|x|
Slot(p, q) == [written |-> FALSE, prec |-> p, kind |-> "rational",
               c1 |-> q, c2 |-> RInt(0), terms |-> 0, neg |-> FALSE]

\* an argument: the mpfr_t value of a RealNumber and its precision
Arg(v, p) == [prec |-> p, value |-> v]

\* the effect of a routine on its output slot, its argument and the heap
Ret(status, slot, arg) ==
    [outcome |-> status, res |-> slot, x |-> arg, inits |-> 0, clears |-> 0,
     trace |-> << >>, iters |-> 0, muls |-> 0, fak |-> 1, acc |-> RInt(0),
     kexit |-> 0, branch |-> "none", eiarg |-> 0]

\* ----------------------------------------------------- _mppochammer_mpfr
RECURSIVE PochLoop(_, _, _, _, _)
PochLoop(res, a, j, k, muls) ==
    IF j > k - 1 THEN [val |-> res, muls |-> muls]
    ELSE PochLoop(RMul(res, RAdd(a, RInt(j))), a, j + 1, k, muls + 1)

\* the loop bound taken as j <= k
mppochammer_mpfr_kmul(res, a, k) ==
    LET l == IF k = 0 THEN [val |-> RInt(1), muls |-> 0]
             ELSE PochLoop(a.value, a.value, 1, k + 1, 0)
    IN  [Ret("ok", [res EXCEPT !.written = TRUE, !.kind = "rational",
                               !.c1 = l.val], a)
         EXCEPT !.inits = 1, !.clears = 1, !.muls = l.muls,
                !.trace = <<"_mppochammer_mpfr">>]

mppochammer_mpfr(res, a, k) ==
    LET l == IF k = 0 THEN [val |-> RInt(1), muls |-> 0]
             ELSE PochLoop(a.value, a.value, 1, k, 0)
    IN  [Ret("ok", [res EXCEPT !.written = TRUE, !.kind = "rational",
                               !.c1 = l.val], a)
         EXCEPT !.inits = 1, !.clears = 1, !.muls = l.muls,
                !.trace = <<"_mppochammer_mpfr">>]

\* a is an exact rational here; the public entry point passes a.value
pochammer_call(a, k) ==
    [mppochammer_mpfr(Slot(a.prec, RInt(0)), Arg(RInt(a.value), a.prec), k)
     EXCEPT !.x = a]

\* -------------------------------------------------------- incgamma_pint_c
RECURSIVE PintLoop(_, _, _, _, _, _)
PintLoop(j, n, x, tmp, tmp2, fak) ==
    IF j > n - 1 THEN [tmp |-> tmp, fak |-> fak, iters |-> j - 1]
    ELSE LET t2 == RDiv(RMul(tmp2, x), RInt(j))
         IN  PintLoop(j + 1, n, x, RAdd(tmp, t2), t2, fak * j)

\* the loop bound taken as j <= n
incgamma_pint_c_nterms(res, n, x) ==
    LET l == PintLoop(1, n + 1, RInt(x.value), RInt(1), RInt(1), 1)
    IN  [Ret("ok", [res EXCEPT !.written = TRUE, !.kind = "exp(-x)",
                               !.c1 = RMul(l.tmp, RInt(l.fak))], x)
         EXCEPT !.inits = 3, !.clears = 3, !.iters = l.iters,
                !.fak = l.fak, !.acc = l.tmp,
                !.trace = <<"incgamma_pint_c">>]

incgamma_pint_c(res, n, x) ==
    LET l == PintLoop(1, n, RInt(x.value), RInt(1), RInt(1), 1)
    IN  [Ret("ok", [res EXCEPT !.written = TRUE, !.kind = "exp(-x)",
                               !.c1 = RMul(l.tmp, RInt(l.fak))], x)
         EXCEPT !.inits = 3, !.clears = 3, !.iters = l.iters,
                !.fak = l.fak, !.acc = l.tmp,
                !.trace = <<"incgamma_pint_c">>]

\* ------------------------------------------------- the two Ei series loops
\* for k in range(lo, hi): ...; if mpfr_cmpabs(tmp, eps) < 0: break
\* conv is the index of the first term below eps (0: no term is).  After a
\* loop that was not left by break, k holds the last value of the range.
RangeLoop(lo, hi, conv) ==
    IF lo <= conv /\ conv <= hi - 1 THEN [k |-> conv, broke |-> TRUE]
    ELSE [k |-> hi - 1, broke |-> FALSE]

\* The indices at which the first term below eps is tried: none, the first
\* index a loop tests (standing for any index well before the ceiling), and
\* the indices next to the ceiling.
ConvAsymp  == {0, 1, nmax - 1, nmax}
ConvTaylor == {0, 2, nmax - 1, nmax}

\* ei_asymp_c: the k-th term is k!/x^k >= exp(-|x|), eps is
\* 2^-(prec+1) * |x| / exp(x).  For 0 < x <= 2^(prec+1) no term is below
\* eps; for x < 0 and |x| > prec the first one is.  Elsewhere the index
\* depends on the MPFR arithmetic and is left open.
AsympConv(x) ==
    IF x.value > 0 /\ x.value <= Pow2(x.prec + 1) THEN {0}
    ELSE IF x.value < 0 /\ -x.value > x.prec THEN {1}
    ELSE ConvAsymp

ei_asymp_c(res, x, conv) ==
    LET l == RangeLoop(1, nmax, conv)
    IN  IF l.k >= nmax
        THEN [Ret("ArithmeticError", res, x)
              EXCEPT !.kexit = l.k, !.iters = l.k, !.trace = <<"ei_asymp_c">>]
        ELSE [Ret("ok", [res EXCEPT !.written = TRUE, !.kind = "ei_asymp",
                                    !.terms = l.k], x)
              EXCEPT !.kexit = l.k, !.iters = l.k, !.trace = <<"ei_asymp_c">>]

Ei_ml_c(res, x, conv) ==
    LET l == RangeLoop(2, nmax + 1, conv)
    IN  IF l.k >= nmax
        THEN [Ret("ArithmeticError", res, x)
              EXCEPT !.kexit = l.k, !.iters = l.k - 1, !.inits = 1,
                     !.trace = <<"Ei_ml_c">>]
        ELSE [Ret("ok", [res EXCEPT !.written = TRUE, !.kind = "Ei_ml",
                                    !.terms = l.k], x)
              EXCEPT !.kexit = l.k, !.iters = l.k - 1, !.inits = 1, !.clears = 1,
                     !.trace = <<"Ei_ml_c">>]

ei_taylor_c(res, x, conv) ==
    LET r == Ei_ml_c(res, x, conv)
    IN  IF r.outcome # "ok"
        THEN [r EXCEPT !.inits = r.inits + 1,
                       !.trace = <<"ei_taylor_c">> \o r.trace]
        ELSE [r EXCEPT !.inits = r.inits + 1,
                       !.trace = <<"ei_taylor_c">> \o r.trace,
                       !.x = [x EXCEPT !.value = Abs(x.value)],
                       !.res = [r.res EXCEPT !.kind = "ei_taylor"]]

\* ------------------------------------------------------- incgamma_nint_c
\* ceil(wp*0.693)
Ceil693(wp) == -((-(693 * wp)) \div 1000)

incgamma_nint_c(res, n, x, conv) ==
    IF n # 0
    THEN [Ret("NotImplementedError", res, x)
          EXCEPT !.trace = <<"incgamma_nint_c">>]
    ELSE
    LET prec == x.prec
        wp   == prec + 20
        xabs == Abs(x.value)
        rh   == Ceil693(wp) + 10
    IN  IF xabs > rh
        THEN LET xnew == Arg(-x.value, wp)
                 r    == ei_asymp_c(res, xnew, conv)
             IN  [r EXCEPT !.inits = r.inits + 3,
                           !.trace = <<"incgamma_nint_c">> \o r.trace,
                           !.branch = "asymp", !.eiarg = xnew.value, !.x = x,
                           !.res = IF r.outcome = "ok"
                                   THEN [r.res EXCEPT !.neg = ~r.res.neg]
                                   ELSE r.res]
        ELSE LET wpt  == wp + 2 * xabs
                 xnew == Arg(-x.value, wpt)
                 r    == ei_taylor_c([res EXCEPT !.prec = wpt, !.kind = "nan"],
                                     xnew, conv)
             IN  [r EXCEPT !.inits = r.inits + 3,
                           !.trace = <<"incgamma_nint_c">> \o r.trace,
                           !.branch = "taylor", !.eiarg = xnew.value, !.x = x,
                           !.res = IF r.outcome = "ok"
                                   THEN [r.res EXCEPT !.neg = ~r.res.neg]
                                   ELSE r.res]

\* the index of the first term below eps for the series Gamma(0,x) runs
NintConv(x) ==
    IF Abs(x.value) > Ceil693(x.prec + 20) + 10
    THEN AsympConv(Arg(-x.value, x.prec + 20))
    ELSE ConvTaylor

\* ---------------------------------------------------------- incgamma_int
\* the dispatch taken as n >= 0
incgamma_int_call_ge(n, x, conv) ==
    LET res == Slot(x.prec, RInt(0))
    IN  IF n >= 0 THEN incgamma_pint_c(res, n, x)
        ELSE incgamma_nint_c(res, n, x, conv)

incgamma_int_call(n, x, conv) ==
    LET res == Slot(x.prec, RInt(0))
    IN  IF n > 0 THEN incgamma_pint_c(res, n, x)
        ELSE incgamma_nint_c(res, n, x, conv)

\* ---------------------------------------------------------------------- ei
\* v = num/den > 0 rounded to nearest (ties to even) at precision p, then
\* its integer part: RF_orig(wp*0.693).integer_part()
RECURSIVE BitLen(_, _)
BitLen(num, den) == IF num < den THEN 0 ELSE 1 + BitLen(num, 2 * den)

RoundDiv(a, b) ==
    LET q == a \div b
        r == a % b
    IN  IF 2 * r < b THEN q
        ELSE IF 2 * r > b THEN q + 1
        ELSE IF q % 2 = 0 THEN q ELSE q + 1

RoundedIntegerPart(num, den, p) ==
    LET e == BitLen(num, den)
    IN  IF e >= p THEN RoundDiv(num, den * Pow2(e - p)) * Pow2(e - p)
        ELSE RoundDiv(num * Pow2(p - e), den) \div Pow2(p - e)

ei_rh(prec) == RoundedIntegerPart(693 * (prec + 20), 1000, prec) + 10

ei_asymp_call(x, conv) == ei_asymp_c(Slot(x.prec, RInt(0)), x, conv)

ei_taylor_call(x, conv) == ei_taylor_c(Slot(x.prec, RInt(0)), x, conv)

Ei_ml_call(x, conv) == Ei_ml_c(Slot(x.prec, RInt(0)), x, conv)

ei_call(x, conv) ==
    LET wp   == x.prec + 20
        xabs == Abs(x.value)
        rh   == ei_rh(x.prec)
    IN  IF xabs > rh
        THEN LET r == ei_asymp_call(Arg(x.value, wp), conv)
             IN  [r EXCEPT !.trace = <<"ei">> \o r.trace, !.branch = "asymp",
                           !.eiarg = x.value, !.x = x,
                           !.res = IF r.outcome = "ok"
                                   THEN [r.res EXCEPT !.prec = x.prec]
                                   ELSE r.res]
        ELSE LET r == ei_taylor_call(Arg(x.value, wp + 2 * xabs), conv)
             IN  [r EXCEPT !.trace = <<"ei">> \o r.trace, !.branch = "taylor",
                           !.eiarg = x.value, !.x = x,
                           !.res = IF r.outcome = "ok"
                                   THEN [r.res EXCEPT !.prec = x.prec]
                                   ELSE r.res]

EiConv(x) ==
    IF Abs(x.value) > ei_rh(x.prec) THEN AsympConv(Arg(x.value, x.prec + 20))
    ELSE ConvTaylor

\* ---------------------------------------------------- mpfr_sqpi_erfc_sqx
\* res = sqrt(pi)*erfc(sqrt(x)) = 1*E
mpfr_sqpi_erfc_sqx(res, x) ==
    [Ret("ok", [res EXCEPT !.written = TRUE, !.kind = "E,S",
                           !.c1 = RInt(1), !.c2 = RInt(0)], x)
     EXCEPT !.inits = 1, !.clears = 1, !.trace = <<"mpfr_sqpi_erfc_sqx">>]

\* ------------------------------------------------------ incgamma_phint_c
Half == <<1, 2>>

\* for j from 0 <= j <= n-1: the sum of pochammer(1/2-n, n-j-1) * (-x)^j
RECURSIVE PhintSum(_, _, _, _, _, _)
PhintSum(j, n, x, half_m_n, tmp, summa) ==
    IF j > n - 1 THEN summa
    ELSE LET term == RMul(mppochammer_mpfr(Slot(x.prec, RInt(0)),
                                           Arg(half_m_n, x.prec),
                                           n - j - 1).res.c1, tmp)
         IN  PhintSum(j + 1, n, x, half_m_n,
                      RNeg(RMul(tmp, RInt(x.value))), RAdd(summa, term))

\* for j from 1 <= j <= n: tmp = tmp*(2*j-1)
RECURSIVE PhintProd(_, _, _)
PhintProd(j, n, tmp) ==
    IF j > n THEN tmp ELSE PhintProd(j + 1, n, RMul(tmp, RInt(2 * j - 1)))

\* the sign of the exp(-x)*sqrt(x) term flipped for odd n instead of even n
incgamma_phint_c_parity(res, n, x) ==
    IF ~(n >= 0)
    THEN [Ret("AssertionError", res, x) EXCEPT !.trace = <<"incgamma_phint_c">>]
    ELSE
    LET half_m_n == RAdd(Half, RInt(-n))
        summa    == PhintSum(0, n, x, half_m_n, RInt(1), RInt(0))
        prod     == PhintProd(1, n, RInt(1))
        erfc     == mpfr_sqpi_erfc_sqx(Slot(x.prec, RInt(0)), x)
        tmp      == RMul(prod, RDiv(erfc.res.c1, RInt(Pow2(n))))
        tmp2     == RMul(IF n % 2 = 1 THEN RInt(-1) ELSE RInt(1), summa)
    IN  [Ret("ok", [res EXCEPT !.written = TRUE, !.kind = "E,S",
                               !.c1 = tmp, !.c2 = tmp2], x)
         EXCEPT !.inits = 6 + n + erfc.inits, !.clears = 5 + n + erfc.clears,
                !.iters = n,
                !.trace = <<"incgamma_phint_c">>]

incgamma_phint_c(res, n, x) ==
    IF ~(n >= 0)
    THEN [Ret("AssertionError", res, x) EXCEPT !.trace = <<"incgamma_phint_c">>]
    ELSE
    LET half_m_n == RAdd(Half, RInt(-n))
        summa    == PhintSum(0, n, x, half_m_n, RInt(1), RInt(0))
        prod     == PhintProd(1, n, RInt(1))
        erfc     == mpfr_sqpi_erfc_sqx(Slot(x.prec, RInt(0)), x)
        \* tmp = prod * E / 2^n
        tmp      == RMul(prod, RDiv(erfc.res.c1, RInt(Pow2(n))))
        \* tmp2 = exp(-x)*sqrt(x) = 1*S, negated for even n, times summa
        tmp2     == RMul(IF n % 2 = 0 THEN RInt(-1) ELSE RInt(1), summa)
    IN  [Ret("ok", [res EXCEPT !.written = TRUE, !.kind = "E,S",
                               !.c1 = tmp, !.c2 = tmp2], x)
         EXCEPT !.inits = 6 + n + erfc.inits, !.clears = 5 + n + erfc.clears,
                !.iters = n,
                !.trace = <<"incgamma_phint_c">>]

\* ------------------------------------------------------ incgamma_nhint_c
\* tmp = x^(1/2-n) is kept as the coefficient x^(j-n) of sqrt(x)
\* for j from 0 <= j <= n-1: the sum of tmp / pochammer(1/2-n, j+1)
RECURSIVE NhintSum(_, _, _, _, _, _)
NhintSum(j, n, x, half_m_n, tmp, summa) ==
    IF j > n - 1 THEN summa
    ELSE LET tmp2 == RDiv(tmp, mppochammer_mpfr(Slot(x.prec, RInt(0)),
                                                Arg(half_m_n, x.prec),
                                                j + 1).res.c1)
         IN  NhintSum(j + 1, n, x, half_m_n, RMul(tmp, RInt(x.value)),
                      RAdd(summa, tmp2))

incgamma_nhint_c(res, n, x) ==
    IF ~(n >= 0)
    THEN [Ret("AssertionError", res, x) EXCEPT !.trace = <<"incgamma_nhint_c">>]
    ELSE
    LET half_m_n == RAdd(Half, RInt(-n))
        summa    == NhintSum(0, n, x, half_m_n, RPow(RInt(x.value), -n), RInt(0))
        poch     == mppochammer_mpfr(Slot(x.prec, RInt(0)),
                                     Arg(Half, x.prec), n)
        erfc     == mpfr_sqpi_erfc_sqx(Slot(x.prec, RInt(0)), x)
        \* tmp2 = E / pochammer(1/2, n), negated for odd n
        tmp2     == RMul(IF n % 2 = 1 THEN RInt(-1) ELSE RInt(1),
                         RDiv(erfc.res.c1, poch.res.c1))
        \* tmp3 = exp(-x) * (-summa), summa in units of sqrt(x)
        tmp3     == RNeg(summa)
    IN  [Ret("ok", [res EXCEPT !.written = TRUE, !.kind = "E,S",
                               !.c1 = tmp2, !.c2 = tmp3], x)
         EXCEPT !.inits = 7 + n + poch.inits + erfc.inits,
                !.clears = 7 + n + poch.clears + erfc.clears,
                !.iters = n,
                !.trace = <<"incgamma_nhint_c">>]

\* ------------------------------------------------------- incgamma_hint_c
incgamma_hint_c(res, n, x) ==
    IF n > 0
    THEN LET r == incgamma_phint_c(res, n, x)
         IN  [r EXCEPT !.trace = <<"incgamma_hint_c">> \o r.trace]
    ELSE IF n < 0
    THEN LET r == incgamma_nhint_c(res, -n, x)
         IN  [r EXCEPT !.trace = <<"incgamma_hint_c">> \o r.trace]
    ELSE [Ret("ok", [res EXCEPT !.written = TRUE, !.kind = "E,S",
                                !.c1 = RInt(1), !.c2 = RInt(0)], x)
          EXCEPT !.inits = 2, !.trace = <<"incgamma_hint_c">>]

incgamma_hint_call(n, x)  == incgamma_hint_c(Slot(x.prec, RInt(0)), n, x)
incgamma_phint_call(n, x) == incgamma_phint_c(Slot(x.prec, RInt(1)), n, x)
incgamma_nhint_call(n, x) == incgamma_nhint_c(Slot(x.prec, RInt(1)), n, x)

\* ================================================================= state
VARIABLES
    call,     \* the last public call: entry point and arguments
    outcome,  \* "ok", or the exception the call ended with
    res,      \* the output slot of the call
    xout,     \* the caller's argument (x or a) after the call
    stats,    \* what the call did: routines entered, loop counts, branch
    live      \* scratch mpfr_t values initialised and not cleared so far

vars == <<call, outcome, res, xout, stats, live>>

Call(o, nn, xx, kk, cc) ==
    [op |-> o, nArg |-> nn, xArg |-> xx, kArg |-> kk, convArg |-> cc]

Precs == (MaxPrec - 1)..MaxPrec

\* the arguments a caller can hold: exact values of their precision
XVals == {v \in -MaxX..MaxX : Abs(v) <= MaxHX \/ Abs(v) >= MaxX - XSpan}
Xs  == {a \in [prec : Precs, value : XVals] : Representable(a.value, a.prec)}
HXs == {a \in [prec : Precs, value : 1..MaxHX] : Representable(a.value, a.prec)}
As  == {a \in [prec : Precs, value : -MaxA..MaxA] : Representable(a.value, a.prec)}

Stats(r) ==
    [inits |-> r.inits, clears |-> r.clears, trace |-> r.trace,
     iters |-> r.iters, muls |-> r.muls, fak |-> r.fak, acc |-> r.acc,
     kexit |-> r.kexit, branch |-> r.branch, eiarg |-> r.eiarg]

Init ==
    /\ call = Call("none", 0, Arg(0, 2), 0, 0)
    /\ outcome = "none"
    /\ res = Slot(2, RInt(0))
    /\ xout = Arg(0, 2)
    /\ stats = Stats(Ret("none", Slot(2, RInt(0)), Arg(0, 2)))
    /\ live = 0

\* a public call c ended as r describes
Done(c, r) ==
    /\ live + r.inits - r.clears <= MaxLive
    /\ call' = c
    /\ outcome' = r.outcome
    /\ res' = r.res
    /\ xout' = r.x
    /\ stats' = Stats(r)
    /\ live' = live + r.inits - r.clears

incgamma_int ==
    \E n \in -MaxN..MaxN, x \in Xs :
        \E conv \in (IF n = 0 THEN NintConv(x) ELSE {0}) :
            Done(Call("incgamma_int", n, x, 0, conv),
                 incgamma_int_call(n, x, conv))

ei ==
    \E x \in {a \in Xs : a.value # 0} : \E conv \in EiConv(x) :
        Done(Call("ei", 0, x, 0, conv), ei_call(x, conv))

ei_asymp ==
    \E x \in {a \in Xs : a.value # 0} : \E conv \in AsympConv(x) :
        Done(Call("ei_asymp", 0, x, 0, conv), ei_asymp_call(x, conv))

Ei_ml ==
    \E x \in {a \in Xs : a.value # 0} : \E conv \in ConvTaylor :
        Done(Call("Ei_ml", 0, x, 0, conv), Ei_ml_call(x, conv))

ei_taylor ==
    \E x \in {a \in Xs : a.value # 0} : \E conv \in ConvTaylor :
        Done(Call("ei_taylor", 0, x, 0, conv), ei_taylor_call(x, conv))

incgamma_hint ==
    \E n \in -MaxN..MaxN, x \in HXs :
        Done(Call("incgamma_hint", n, x, 0, 0), incgamma_hint_call(n, x))

incgamma_phint ==
    \E n \in -1..MaxN, x \in HXs :
        Done(Call("incgamma_phint", n, x, 0, 0), incgamma_phint_call(n, x))

incgamma_nhint ==
    \E n \in -1..MaxN, x \in HXs :
        Done(Call("incgamma_nhint", n, x, 0, 0), incgamma_nhint_call(n, x))

pochammer ==
    \E a \in As, k \in -MaxK..MaxK :
        Done(Call("pochammer", 0, a, k, 0), pochammer_call(a, k))

Next ==
    \/ incgamma_int
    \/ ei
    \/ ei_asymp
    \/ Ei_ml
    \/ ei_taylor
    \/ incgamma_hint
    \/ incgamma_phint
    \/ incgamma_nhint
    \/ pochammer

Spec == Init /\ [][Next]_vars

\* ================================================================ claims
InTrace(name) == \E i \in 1..Len(stats.trace) : stats.trace[i] = name

RECURSIVE Factorial(_)
Factorial(m) == IF m <= 0 THEN 1 ELSE m * Factorial(m - 1)

\* a*(a+1)*...*(a+k-1) for an integer a
RECURSIVE RisingFactorial(_, _)
RisingFactorial(a, k) ==
    IF k = 0 THEN 1 ELSE RisingFactorial(a, k - 1) * (a + k - 1)

\* 1 + sum_{j=1}^{m} x^j/j!
RECURSIVE ExpSum(_, _)
ExpSum(x, m) ==
    IF m = 0 THEN RInt(1)
    ELSE RAdd(ExpSum(x, m - 1), RDiv(RPow(RInt(x), m), RInt(Factorial(m))))

\* C1: when no term within the iteration ceiling is below eps, an Ei series
\* loop (ei_asymp_c, Ei_ml_c) raises ArithmeticError and writes no result.
C1_NonConvergenceRaises ==
    (/\ InTrace("ei_asymp_c") \/ InTrace("Ei_ml_c")
     /\ call.convArg \notin 1..nmax)
        => (outcome = "ArithmeticError" /\ ~res.written)

\* C2: incgamma_int dispatches on n alone: n < 0 raises NotImplementedError
\* before any scratch value is allocated or any series is run and returns
\* nothing; n = 0 evaluates -Ei(-x) through the regime-selecting path;
\* n > 0 runs incgamma_pint_c.
C2_IntDispatch ==
    call.op = "incgamma_int" =>
        /\ call.nArg < 0 =>
              /\ outcome = "NotImplementedError"
              /\ stats.trace = <<"incgamma_nint_c">>
              /\ stats.inits = 0 /\ stats.iters = 0
              /\ ~res.written
        /\ call.nArg = 0 =>
              /\ Len(stats.trace) >= 2
              /\ stats.trace[1] = "incgamma_nint_c"
              /\ \/ stats.branch = "asymp" /\ stats.trace[2] = "ei_asymp_c"
                 \/ stats.branch = "taylor" /\ stats.trace[2] = "ei_taylor_c"
              /\ stats.eiarg = -call.xArg.value
              /\ outcome \in {"ok", "ArithmeticError"}
              /\ outcome = "ok" =>
                    res.neg /\ res.kind \in {"ei_asymp", "ei_taylor"}
        /\ call.nArg > 0 =>
              /\ outcome = "ok"
              /\ stats.trace = <<"incgamma_pint_c">>
              /\ res.kind = "exp(-x)"

C2_Witness ==
    /\ call.op = "incgamma_int" /\ call.nArg < 0
    /\ outcome = "NotImplementedError" /\ stats.inits = 0

\* C3: pochammer(a, k) with k < 0 fails and returns no value.
C3_NegativeKRejected ==
    (call.op = "pochammer" /\ call.kArg < 0) => outcome # "ok"

\* C4: for k >= 0 pochammer(a, k) returns the rising factorial
\* a*(a+1)*...*(a+k-1), with exactly k-1 multiplications for k >= 1, and 1
\* for k = 0; pochammer(2, 3) = 24.
C4_RisingFactorial ==
    (call.op = "pochammer" /\ call.kArg >= 0) =>
        /\ outcome = "ok"
        /\ res.written /\ res.kind = "rational"
        /\ res.c1 = RInt(RisingFactorial(call.xArg.value, call.kArg))
        /\ call.kArg >= 1 => stats.muls = call.kArg - 1
        /\ call.kArg = 0 => res.c1 = RInt(1) /\ stats.muls = 0
        /\ (call.xArg.value = 2 /\ call.kArg = 3) => res.c1 = RInt(24)

C4_Witness ==
    /\ call.op = "pochammer" /\ call.xArg.value = 2 /\ call.kArg = 3
    /\ outcome = "ok" /\ res.c1 = RInt(24) /\ stats.muls = 2

\* C5: the value returned by incgamma_int and incgamma_hint has the
\* precision x had on entry, in every branch.
C5_ResultPrecision ==
    (call.op \in {"incgamma_int", "incgamma_hint"} /\ outcome = "ok")
        => res.prec = call.xArg.prec

\* C6: a call that returns normally leaves as many live scratch values as
\* it found: every mpfr_init2 is matched by an mpfr_clear.
C6_ScratchReleased == [][outcome' = "ok" => live' = live]_vars

\* C7: the half-integer branches satisfy Gamma(a+1,x) = a*Gamma(a,x) +
\* x^a*exp(-x): with G(m) the exact value incgamma_hint_c builds for
\* Gamma(m+1/2,x), G(m+1) = (m+1/2)*G(m) + x^m*S.
C7_Recurrence ==
    (call.op = "incgamma_hint" /\ call.nArg > -MaxN) =>
        LET m == call.nArg - 1
            a == RAdd(RInt(m), Half)
            g == incgamma_hint_call(m, call.xArg).res
        IN  /\ outcome = "ok" /\ res.kind = "E,S"
            /\ res.c1 = RMul(a, g.c1)
            /\ res.c2 = RAdd(RMul(a, g.c2), RPow(RInt(call.xArg.value), m))

C7_Witness ==
    /\ call.op = "incgamma_hint" /\ call.nArg = 2 /\ call.xArg.value = 2
    /\ outcome = "ok" /\ res.c1 = <<3, 4>> /\ res.c2 = <<7, 2>>

\* C8: ei(x) and the Gamma(0,x) path both select the asymptotic branch
\* exactly when |x| > rh = ceil(0.693*wp) + 10, so ei(-x) and Gamma(0,x)
\* take the same branch.
Regime(xabs, rh) == IF xabs > rh THEN "asymp" ELSE "taylor"

C8_SameRegimeRule ==
    LET xabs == Abs(call.xArg.value)
        rh   == Ceil693(call.xArg.prec + 20) + 10
    IN  /\ call.op = "ei" => stats.branch = Regime(xabs, rh)
        /\ (call.op = "incgamma_int" /\ call.nArg = 0) =>
              /\ stats.branch = Regime(xabs, rh)
              /\ stats.branch = Regime(xabs, ei_rh(call.xArg.prec))

\* C9: for n >= 1 incgamma_pint_c runs n-1 iterations, after which the
\* running factorial is (n-1)! and the accumulator 1 + sum_{j<n} x^j/j!; the
\* output is exp(-x)*(n-1)!*(1 + sum_{j=1}^{n-1} x^j/j!), exp(-x) for n = 1.
C9_FiniteSeries ==
    (call.op = "incgamma_int" /\ call.nArg >= 1) =>
        LET n == call.nArg
            x == call.xArg.value
        IN  /\ outcome = "ok"
            /\ stats.iters = n - 1
            /\ stats.fak = Factorial(n - 1)
            /\ stats.acc = ExpSum(x, n - 1)
            /\ res.written /\ res.kind = "exp(-x)"
            /\ res.c1 = RMul(RInt(Factorial(n - 1)), ExpSum(x, n - 1))
            /\ n = 1 => res.c1 = RInt(1)

C9_Witness ==
    /\ call.op = "incgamma_int" /\ call.nArg = 3 /\ call.xArg.value = 1
    /\ outcome = "ok" /\ stats.iters = 2 /\ res.c1 = RInt(5)

\* C10: no public routine changes its argument: after any call, whether it
\* returns or raises, x (or a) has the value and precision it had before.
C10_ArgumentUnchanged ==
    call.op # "none" => xout = call.xArg

====
